---- MODULE Spec2Model ----
(***************************************************************************)
(* A model of svxlinkconf.py: the typed section records                   *)
(* (SvxlinkTypeContainer, SvxlinkTypeNet, SvxlinkTypeMulti) and the        *)
(* configuration document (SvxlinkConf) built on an INI store.             *)
(*                                                                         *)
(* An option name is a pair of a spelling-independent name n and a letter  *)
(* case c ("U" all upper, "L" all lower, "M" mixed), so that str.upper()   *)
(* and the store's lower-casing are real conversions.  Python's None is    *)
(* the value NoneVal.  Every call leaves its outcome (the value returned   *)
(* or the exception raised) in res.                                        *)
(***************************************************************************)
EXTENDS Naturals, Sequences, FiniteSets, TLC

VARIABLES rec, res, defaulttimeout, config, files, writes, trail

vars == <<rec, res, defaulttimeout, config, files, writes, trail>>

-----------------------------------------------------------------------------
(* Bounds of the model *)

\* longest (name, value) sequence handed to a record constructor
MaxData == 2
\* most sections a document may hold before add_section is no longer tried
MaxSections == 3
\* most lines a file may hold before an appending write is no longer tried
MaxFileLines == 12
\* most calls of write in a run
MaxWrites == 1

-----------------------------------------------------------------------------
(* Strings *)

NoneVal == "<None>"

Cases == {"U", "L", "M"}

K(n, c) == [n |-> n, c |-> c]

\* str.upper()
Upper(key) == [key EXCEPT !.c = "U"]

\* str.lower(), the store's optionxform
Lower(key) == [key EXCEPT !.c = "L"]

\* str.startswith("_")
StartsWithUnderscore(key) == key.n \in {"_"}

\* the number of conversion specifiers of the message at line 85
FormatSpecifiers == 2

\* "fmt % arg" with arg a single string: one argument for the specifiers
PercentFormat(nspec, nargs) == IF nspec = nargs THEN "none" ELSE "TypeError"

\* the names bound at module level when a constructor runs
ModuleNames == {"OrderedDict", "iniparse", "SvxlinkTypeContainer",
                "SvxlinkTypeNet", "SvxlinkTypeMulti", "SvxlinkConf"}

\* evaluating a global name
LookupGlobal(name) == IF name \in ModuleNames THEN "none" ELSE "NameError"

-----------------------------------------------------------------------------
(* OrderedDict: a sequence of entries [k, v] with distinct keys *)

DictHas(d, key) == \E i \in 1..Len(d) : d[i].k = key

DictIndex(d, key) == CHOOSE i \in 1..Len(d) : d[i].k = key

\* OrderedDict.get(key)
DictGet(d, key) == IF DictHas(d, key) THEN d[DictIndex(d, key)].v ELSE NoneVal

\* OrderedDict.update({key: val})
DictUpdate(d, key, val) ==
    IF DictHas(d, key)
    THEN [d EXCEPT ![DictIndex(d, key)].v = val]
    ELSE Append(d, [k |-> key, v |-> val])

-----------------------------------------------------------------------------
(* SvxlinkTypeContainer *)

\* no record constructed yet
NoRec == [cls |-> "", type_name |-> "", section_name |-> "",
          valid_options |-> {}, dbase |-> <<>>]

NoData == [given |-> FALSE, pairs |-> <<>>]

Data(pairs) == [given |-> TRUE, pairs |-> pairs]

\* __check_item_and_update that deletes the entry and inserts it again
CheckItemReinsert(r, key, val) ==
    IF Upper(key) \notin r.valid_options
    THEN [err |-> "TypeError", r |-> r]
    ELSE [err |-> "none",
          r |-> [r EXCEPT !.dbase =
                    Append(SelectSeq(@, LAMBDA e : e.k # Upper(key)),
                           [k |-> Upper(key), v |-> val])]]

\* __check_item_and_update: the outcome and the record afterwards
CheckItemAndUpdate(r, key, val) ==
    IF Upper(key) \notin r.valid_options
    THEN [err |-> IF PercentFormat(FormatSpecifiers, 1) = "none"
                  THEN "ValueError"
                  ELSE PercentFormat(FormatSpecifiers, 1),
          r |-> r]
    ELSE [err |-> "none",
          r |-> [r EXCEPT !.dbase = DictUpdate(@, Upper(key), val)]]

\* the loop of __init__ over data: stops at the first failure
RECURSIVE FillFrom(_, _)
FillFrom(r, pairs) ==
    IF pairs = <<>>
    THEN [err |-> "none", r |-> r]
    ELSE LET c == CheckItemAndUpdate(r, Head(pairs).k, Head(pairs).v)
         IN  IF c.err # "none" THEN c ELSE FillFrom(c.r, Tail(pairs))

\* __init__ that leaves the mapping empty when no data is given
ContainerInitNoSeed(type_name, section_name, valid_options, data) ==
    FillFrom([cls |-> "SvxlinkTypeContainer", type_name |-> type_name,
              section_name |-> section_name, valid_options |-> valid_options,
              dbase |-> <<>>],
             data.pairs)

\* SvxlinkTypeContainer.__init__
ContainerInit(type_name, section_name, valid_options, data) ==
    LET r0 == [cls |-> "SvxlinkTypeContainer", type_name |-> type_name,
               section_name |-> section_name,
               valid_options |-> valid_options, dbase |-> <<>>]
    IN  IF ~data.given
        THEN [err |-> "none",
              r |-> [r0 EXCEPT !.dbase =
                        DictUpdate(@, K("TYPE", "U"), type_name)]]
        ELSE FillFrom(r0, data.pairs)

\* __getitem__ without the upper-casing of the key
GetItemNoUpper(r, key) == DictGet(r.dbase, key)

\* __getitem__
GetItemOf(r, key) == DictGet(r.dbase, Upper(key))

\* has_option
HasOptionOf(r, option) == DictHas(r.dbase, Upper(option))

\* get_section_name
GetSectionName(r) == r.section_name

\* items
RECURSIVE ItemsFrom(_, _)
ItemsFrom(r, d) ==
    IF d = <<>>
    THEN <<>>
    ELSE (IF ~StartsWithUnderscore(Head(d).k)
          THEN <<[k |-> Head(d).k, v |-> GetItemOf(r, Head(d).k)]>>
          ELSE <<>>) \o ItemsFrom(r, Tail(d))

ItemsOf(r) == ItemsFrom(r, r.dbase)

-----------------------------------------------------------------------------
(* The variants *)

NetOptions == {K("TYPE", "U"), K("HOST", "U"), K("TCP_PORT", "U"),
               K("AUTH_KEY", "U"), K("CODEC", "U")}

MultiOptions == {K("TRANSMITTERS", "U")}

\* the object under construction is an instance of cls
OfClass(c, cls) == IF c.err = "none" THEN [c EXCEPT !.r.cls = cls] ELSE c

\* SvxlinkTypeNet.__init__
NetInit(section_name, data) ==
    OfClass(ContainerInit("Net", section_name, NetOptions, data),
            "SvxlinkTypeNet")

\* SvxlinkTypeMulti.__init__: super(SvxlinkMulti, self) is evaluated first
MultiInit(section_name, data) ==
    IF LookupGlobal("SvxlinkMulti") # "none"
    THEN [err |-> LookupGlobal("SvxlinkMulti"), r |-> NoRec]
    ELSE OfClass(ContainerInit("Multi", section_name, MultiOptions, data),
                 "SvxlinkTypeMulti")

\* the timeout of the probe, in seconds
ConnectTimeout == 3

\* is_online with the precondition tested after the socket is made
IsOnlineCheckLate(r, connects) ==
    IF ~(HasOptionOf(r, K("TCP_PORT", "U")) /\ HasOptionOf(r, K("HOST", "U")))
    THEN [err |-> "ValueError", val |-> NoneVal,
          net |-> <<"setdefaulttimeout", "socket">>]
    ELSE [err |-> "none", val |-> connects,
          net |-> <<"setdefaulttimeout", "socket", "connect">>]

\* is_online: the outcome, and the socket calls made, in order
IsOnlineOf(r, connects) ==
    IF ~(HasOptionOf(r, K("TCP_PORT", "U")) /\ HasOptionOf(r, K("HOST", "U")))
    THEN [err |-> "ValueError", val |-> NoneVal, net |-> <<>>]
    ELSE [err |-> "none", val |-> connects,
          net |-> <<"setdefaulttimeout", "socket", "connect">>]

-----------------------------------------------------------------------------
(* The INI store (iniparse.ConfigParser).  A document is a sequence of     *)
(* sections [name, opts]; an option keeps the spelling it was written with  *)
(* and is looked up by its lower-cased name.  A file is a sequence of lines. *)

SecLine(name) == [t |-> "section", name |-> name, k |-> K("", "L"), v |-> ""]

OptLine(key, val) == [t |-> "option", name |-> "", k |-> key, v |-> val]

SecIndex(d, name) == CHOOSE i \in 1..Len(d) : d[i].name = name

\* has_section
StoreHasSection(d, name) == \E i \in 1..Len(d) : d[i].name = name

\* sections
StoreSections(d) == [i \in 1..Len(d) |-> d[i].name]

OptHas(opts, key) == \E i \in 1..Len(opts) : Lower(opts[i].k) = Lower(key)

OptIndex(opts, key) == CHOOSE i \in 1..Len(opts) : Lower(opts[i].k) = Lower(key)

\* has_option
StoreHasOption(d, name, key) ==
    StoreHasSection(d, name) /\ OptHas(d[SecIndex(d, name)].opts, key)

\* get
StoreGet(d, name, key) ==
    LET opts == d[SecIndex(d, name)].opts IN opts[OptIndex(opts, key)].v

\* items: the names come back lower-cased
StoreItems(d, name) ==
    LET opts == d[SecIndex(d, name)].opts
    IN  [i \in 1..Len(opts) |-> [k |-> Lower(opts[i].k), v |-> opts[i].v]]

\* add_section
StoreAddSection(d, name) ==
    IF StoreHasSection(d, name)
    THEN [err |-> "DuplicateSectionError", d |-> d]
    ELSE [err |-> "none", d |-> Append(d, [name |-> name, opts |-> <<>>])]

\* set, on a section that exists
StoreSet(d, name, key, val) ==
    LET i == SecIndex(d, name)
        opts == d[i].opts
    IN  IF OptHas(opts, key)
        THEN [d EXCEPT ![i].opts[OptIndex(opts, key)].v = val]
        ELSE [d EXCEPT ![i].opts = Append(opts, [k |-> key, v |-> val])]

\* write: a header line for each section, then a line for each option
RECURSIVE Serialise(_)
Serialise(d) ==
    IF d = <<>>
    THEN <<>>
    ELSE <<SecLine(Head(d).name)>>
         \o [i \in 1..Len(Head(d).opts) |->
                OptLine(Head(d).opts[i].k, Head(d).opts[i].v)]
         \o Serialise(Tail(d))

\* read: a repeated section header continues the section of that name, a
\* repeated option takes the later value, an option before any header is
\* an error
RECURSIVE ParseInto(_, _, _)
ParseInto(d, cur, lines) ==
    IF lines = <<>>
    THEN [err |-> "none", d |-> d]
    ELSE LET l == Head(lines)
         IN  IF l.t = "section"
             THEN ParseInto(IF StoreHasSection(d, l.name)
                            THEN d
                            ELSE Append(d, [name |-> l.name, opts |-> <<>>]),
                            l.name, Tail(lines))
             ELSE IF cur = ""
                  THEN [err |-> "MissingSectionHeaderError", d |-> d]
                  ELSE ParseInto(StoreSet(d, cur, l.k, l.v), cur, Tail(lines))

Parse(lines) == ParseInto(<<>>, "", lines)

-----------------------------------------------------------------------------
(* SvxlinkConf *)

\* SvxlinkConf.__init__: the document read from the file's lines
ConfInit(lines) == Parse(lines)

\* the filter of get_remote_nodes without the comparison with "Net"
IsRemoteAnyType(d, name) == StoreHasOption(d, name, K("TYPE", "U"))

\* the filter of get_remote_nodes
IsRemote(d, name) ==
    /\ StoreHasOption(d, name, K("TYPE", "U"))
    /\ StoreGet(d, name, K("TYPE", "U")) = "Net"

\* the map of get_remote_nodes: stops at the first constructor that raises
RECURSIVE MapNodes(_, _)
MapNodes(d, names) ==
    IF names = <<>>
    THEN [err |-> "none", val |-> <<>>]
    ELSE LET c == NetInit(Head(names), Data(StoreItems(d, Head(names))))
         IN  IF c.err # "none"
             THEN [err |-> c.err, val |-> <<>>]
             ELSE LET rest == MapNodes(d, Tail(names))
                  IN  IF rest.err # "none"
                      THEN rest
                      ELSE [err |-> "none", val |-> <<c.r>> \o rest.val]

\* get_remote_nodes
GetRemoteNodesOf(d) ==
    MapNodes(d, SelectSeq(StoreSections(d), LAMBDA x : IsRemote(d, x)))

\* the loop of add_section over the record's items
RECURSIVE SetAll(_, _, _)
SetAll(d, name, items) ==
    IF items = <<>>
    THEN d
    ELSE SetAll(StoreSet(d, name, Head(items).k, Head(items).v), name,
                Tail(items))

\* add_section that goes on to copy the items when the section exists
AddSectionIgnoreDuplicate(d, r) ==
    LET a == StoreAddSection(d, GetSectionName(r))
    IN  [err |-> a.err, d |-> SetAll(a.d, GetSectionName(r), ItemsOf(r))]

\* add_section that copies all items but the last
AddSectionDropLast(d, r) ==
    LET a == StoreAddSection(d, GetSectionName(r))
    IN  IF a.err # "none"
        THEN a
        ELSE [err |-> "none",
              d |-> SetAll(a.d, GetSectionName(r),
                           SubSeq(ItemsOf(r), 1, Len(ItemsOf(r)) - 1))]

\* add_section
AddSectionOf(d, r) ==
    LET a == StoreAddSection(d, GetSectionName(r))
    IN  IF a.err # "none"
        THEN a
        ELSE [err |-> "none",
              d |-> SetAll(a.d, GetSectionName(r), ItemsOf(r))]

\* write: what the file holds after open(file_name, mode), write and close
WriteOf(lines, d, mode) ==
    IF mode = "a" THEN lines \o Serialise(d) ELSE Serialise(d)

-----------------------------------------------------------------------------
(* Inputs *)

RecNames == {"NodeA"}

DocRecNames == {"NodeA", "NodeB"}

Values == {"a", "b"}

FileNames == {"f1", "f2"}

Modes == {"a", "w"}

SeqsUpTo(S, n) == UNION {[1..m -> S] : m \in 0..n}

\* keys handed to Set and Get: valid and invalid names, in every letter case
SetKeys == {K(n, c) : n \in {"TYPE", "HOST", "TCP_PORT", "BOGUS"}, c \in Cases}

\* (name, value) pairs as the store's items() gives them, names lower-cased
DataPairs ==
    {[k |-> K("TYPE", "L"), v |-> "Net"], [k |-> K("HOST", "L"), v |-> "a"],
     [k |-> K("BOGUS", "L"), v |-> "a"]}

DataInputs == {NoData} \cup {Data(s) : s \in SeqsUpTo(DataPairs, MaxData)}

\* the constructor arguments the two variants hand to the base class
VariantArgs == {[type_name |-> "Net", valid_options |-> NetOptions],
                [type_name |-> "Multi", valid_options |-> MultiOptions]}

\* the inputs of the document's runs
DocDataInputs ==
    {NoData, Data(<<[k |-> K("HOST", "L"), v |-> "a"],
                    [k |-> K("TYPE", "M"), v |-> "Net"]>>)}

\* the scenario of the specification: GLOBAL, a Net node, a Multi section
FileScenario ==
    <<SecLine("GLOBAL"), OptLine(K("LOGICS", "U"), "a"),
      SecLine("NodeA"), OptLine(K("TYPE", "U"), "Net"),
      OptLine(K("HOST", "U"), "a"), OptLine(K("TCP_PORT", "U"), "b"),
      SecLine("Repeater1"), OptLine(K("TYPE", "U"), "Multi"),
      OptLine(K("TRANSMITTERS", "U"), "a")>>

\* a Net node with an option outside the allow-list
FileExtraOption ==
    <<SecLine("NodeA"), OptLine(K("TYPE", "U"), "Net"),
      OptLine(K("HOST", "U"), "a"), OptLine(K("BOGUS", "U"), "b")>>

\* two Net nodes, one spelt type=Net, after a section whose TYPE is "net"
FileTwoNodes ==
    <<SecLine("Other"), OptLine(K("TYPE", "U"), "net"),
      SecLine("NodeB"), OptLine(K("TYPE", "L"), "Net"),
      OptLine(K("HOST", "U"), "b"),
      SecLine("NodeA"), OptLine(K("TYPE", "U"), "Net"),
      OptLine(K("HOST", "U"), "a")>>

\* a file that already holds a section NodeB with a CODEC option
FileOldNodeB ==
    <<SecLine("NodeB"), OptLine(K("TYPE", "U"), "Net"),
      OptLine(K("CODEC", "U"), "a")>>

SourceFiles == {FileScenario, FileExtraOption, FileTwoNodes, <<>>}

TargetFiles == {<<>>, FileOldNodeB}

-----------------------------------------------------------------------------
(* State *)

NoKey == K("", "L")

Outcome(op, err, val, key, arg, net) ==
    [op |-> op, err |-> err, val |-> val, key |-> key, arg |-> arg, net |-> net]

NoTrail == [stage |-> "", file |-> "", mode |-> "", clash |-> FALSE]

FileHasSection(lines, name) ==
    \E i \in 1..Len(lines) : lines[i].t = "section" /\ lines[i].name = name

\* after conf = SvxlinkConf("f1"), with f1 holding s and f2 holding t
InitWith(s, t) ==
    /\ rec = NoRec
    /\ res = Outcome("SvxlinkConf", "none", NoneVal, NoKey, NoneVal, <<>>)
    /\ defaulttimeout = NoneVal
    /\ files = [f \in FileNames |-> IF f = "f1" THEN s ELSE t]
    /\ config = ConfInit(s).d
    /\ writes = 0
    /\ trail = NoTrail

Init == InitWith(FileScenario, <<>>)

DocInit == \E s \in SourceFiles, t \in TargetFiles : InitWith(s, t)

-----------------------------------------------------------------------------
(* Operations on records *)

\* r = SvxlinkTypeNet(name, data)
NewNet(name, data) ==
    LET c == NetInit(name, data)
    IN  /\ rec' = IF c.err = "none" THEN c.r ELSE rec
        /\ res' = Outcome("SvxlinkTypeNet", c.err, NoneVal, NoKey, data, <<>>)
        /\ trail' = NoTrail
        /\ UNCHANGED <<defaulttimeout, config, files, writes>>

\* r = SvxlinkTypeMulti(name, data)
NewMulti(name, data) ==
    LET c == MultiInit(name, data)
    IN  /\ rec' = IF c.err = "none" THEN c.r ELSE rec
        /\ res' = Outcome("SvxlinkTypeMulti", c.err, NoneVal, NoKey, data, <<>>)
        /\ trail' = NoTrail
        /\ UNCHANGED <<defaulttimeout, config, files, writes>>

\* r = SvxlinkTypeContainer(type_name, name, valid_options, data)
NewContainer(a, name, data) ==
    LET c == ContainerInit(a.type_name, name, a.valid_options, data)
    IN  /\ rec' = IF c.err = "none" THEN c.r ELSE rec
        /\ res' = Outcome("SvxlinkTypeContainer", c.err, NoneVal, NoKey, data,
                          <<>>)
        /\ trail' = NoTrail
        /\ UNCHANGED <<defaulttimeout, config, files, writes>>

\* r[key] = val
SetItem(key, val) ==
    /\ rec # NoRec
    /\ LET c == CheckItemAndUpdate(rec, key, val)
       IN  /\ rec' = c.r
           /\ res' = Outcome("setitem", c.err, NoneVal, key, val, <<>>)
    /\ trail' = NoTrail
    /\ UNCHANGED <<defaulttimeout, config, files, writes>>

\* r[key]
GetItem(key) ==
    /\ rec # NoRec
    /\ res' = Outcome("getitem", "none", GetItemOf(rec, key), key, NoneVal, <<>>)
    /\ trail' = NoTrail
    /\ UNCHANGED <<rec, defaulttimeout, config, files, writes>>

\* r.is_online(), on an SvxlinkTypeNet; connects: whether the peer answers
IsOnline(connects) ==
    /\ rec # NoRec
    /\ rec.cls = "SvxlinkTypeNet"
    /\ LET o == IsOnlineOf(rec, connects)
       IN  /\ res' = Outcome("is_online", o.err, o.val, NoKey, NoneVal, o.net)
           /\ defaulttimeout' = IF o.net # <<>> THEN ConnectTimeout
                                ELSE defaulttimeout
    /\ trail' = NoTrail
    /\ UNCHANGED <<rec, config, files, writes>>

-----------------------------------------------------------------------------
(* Operations on the document *)

\* conf.get_remote_nodes()
GetRemoteNodes ==
    /\ LET g == GetRemoteNodesOf(config)
       IN  res' = Outcome("get_remote_nodes", g.err, g.val, NoKey, NoneVal, <<>>)
    /\ trail' = NoTrail
    /\ UNCHANGED <<rec, defaulttimeout, config, files, writes>>

\* conf.add_section(r)
AddSection ==
    /\ rec # NoRec
    /\ Len(config) < MaxSections \/ StoreHasSection(config, rec.section_name)
    /\ LET a == AddSectionOf(config, rec)
       IN  /\ config' = a.d
           /\ res' = Outcome("add_section", a.err, NoneVal, NoKey, NoneVal, <<>>)
           /\ trail' = IF a.err = "none"
                       THEN [NoTrail EXCEPT !.stage = "added"]
                       ELSE NoTrail
    /\ UNCHANGED <<rec, defaulttimeout, files, writes>>

\* conf.write(f, mode)
Write(f, mode) ==
    /\ writes < MaxWrites
    /\ mode = "a" => Len(files[f]) + Len(Serialise(config)) <= MaxFileLines
    /\ writes' = writes + 1
    /\ files' = [files EXCEPT ![f] = WriteOf(@, config, mode)]
    /\ res' = Outcome("write", "none", NoneVal, NoKey, NoneVal, <<>>)
    /\ trail' = IF trail.stage = "added"
                THEN [stage |-> "written", file |-> f, mode |-> mode,
                      clash |-> FileHasSection(files[f], rec.section_name)]
                ELSE NoTrail
    /\ UNCHANGED <<rec, defaulttimeout, config>>

\* conf = SvxlinkConf(f)
Load(f) ==
    /\ LET p == ConfInit(files[f])
       IN  /\ config' = IF p.err = "none" THEN p.d ELSE config
           /\ res' = Outcome("SvxlinkConf", p.err, NoneVal, NoKey, NoneVal, <<>>)
    /\ trail' = IF trail.stage = "written" /\ trail.file = f
                THEN [trail EXCEPT !.stage = "reloaded"]
                ELSE NoTrail
    /\ UNCHANGED <<rec, defaulttimeout, files, writes>>

-----------------------------------------------------------------------------
(* Specifications *)

\* records: construction, Set, Get and the reachability probe
Next ==
    \/ \E name \in RecNames, data \in DataInputs : NewNet(name, data)
    \/ \E name \in RecNames, data \in DataInputs : NewMulti(name, data)
    \/ \E a \in VariantArgs, name \in RecNames, data \in DataInputs :
          NewContainer(a, name, data)
    \/ \E key \in SetKeys, val \in Values : SetItem(key, val)
    \/ \E key \in SetKeys : GetItem(key)
    \/ \E connects \in BOOLEAN : IsOnline(connects)

Spec == Init /\ [][Next]_vars

\* the document: records added as sections, written, read back, listed
DocNext ==
    \/ \E name \in DocRecNames, data \in DocDataInputs : NewNet(name, data)
    \/ GetRemoteNodes
    \/ AddSection
    \/ \E f \in FileNames, mode \in Modes : Write(f, mode)
    \/ \E f \in FileNames : Load(f)

DocSpec == DocInit /\ [][DocNext]_vars

-----------------------------------------------------------------------------
(* Properties *)

TypeKey == K("TYPE", "U")

IsConstructor(op) ==
    op \in {"SvxlinkTypeNet", "SvxlinkTypeMulti", "SvxlinkTypeContainer"}

HasTypePair(pairs) == \E i \in 1..Len(pairs) : Upper(pairs[i].k) = TypeKey

\* C1: every key of a record's mapping is a member of the record's
\* valid_options, for records of both variants, however they were built.
C1_KeysInValidOptions ==
    rec # NoRec =>
        \A i \in 1..Len(rec.dbase) : rec.dbase[i].k \in rec.valid_options

\* C2: a Set with a key whose upper-cased form is outside the allow-list
\* fails with ValueError and leaves the record as it was.
C2_InvalidSetRaisesValueError ==
    [][(res'.op = "setitem" /\ Upper(res'.key) \notin rec.valid_options)
          => (res'.err = "ValueError" /\ rec' = rec)]_vars

\* C3, as claimed: a record always holds a TYPE entry, also when it was
\* built from a sequence of pairs that has no TYPE pair.
C3_TypeAlwaysPresent == rec # NoRec => HasOptionOf(rec, TypeKey)

\* C3, amended: a record built without data, or from pairs that include a
\* TYPE pair in any letter case, holds a TYPE entry, and a Set never removes
\* a TYPE entry that is there.
C3_TypePresentWhenSeeded ==
    [][/\ (/\ IsConstructor(res'.op)
           /\ res'.err = "none"
           /\ (~res'.arg.given \/ HasTypePair(res'.arg.pairs)))
          => HasOptionOf(rec', TypeKey)
       /\ (res'.op = "setitem" /\ HasOptionOf(rec, TypeKey))
          => HasOptionOf(rec', TypeKey)]_vars

\* a record was built from pairs that include a TYPE pair and another one
C3_Witness ==
    /\ res.op = "SvxlinkTypeNet"
    /\ res.err = "none"
    /\ res.arg.given
    /\ HasTypePair(res.arg.pairs)
    /\ Len(rec.dbase) = 2

\* the sections of d that hold an option named TYPE, in any letter case,
\* whose value is "Net"
NetSections(d) ==
    {i \in 1..Len(d) :
        \E j \in 1..Len(d[i].opts) :
            Upper(d[i].opts[j].k) = TypeKey /\ d[i].opts[j].v = "Net"}

\* nodes holds one SvxlinkTypeNet per Net section of d, in the order of the
\* sections, with the section's name and the section's option values
NodesMatch(d, nodes) ==
    /\ Len(nodes) = Cardinality(NetSections(d))
    /\ \A j \in 1..Len(nodes) :
          \E i \in NetSections(d) :
             /\ Cardinality({h \in NetSections(d) : h < i}) = j - 1
             /\ nodes[j].cls = "SvxlinkTypeNet"
             /\ GetSectionName(nodes[j]) = d[i].name
             /\ \A o \in 1..Len(d[i].opts) :
                   GetItemOf(nodes[j], d[i].opts[o].k) = d[i].opts[o].v

\* every option of every Net section of d is in the allow-list of the
\* network-peer variant
NetSectionsAllowListed(d) ==
    \A i \in NetSections(d) :
        \A j \in 1..Len(d[i].opts) : Upper(d[i].opts[j].k) \in NetOptions

\* C4, as claimed: for every document, whatever options its Net sections
\* hold, get_remote_nodes returns one record per Net section, in order, with
\* the section's name and values.
C4_RemoteNodesOfEveryDocument ==
    res.op = "get_remote_nodes" =>
        res.err = "none" /\ NodesMatch(config, res.val)

\* C4, amended: that holds for every document whose Net sections hold only
\* allow-listed options; with another option in a Net section the call
\* fails and returns nothing.
C4_RemoteNodesOfAllowListed ==
    res.op = "get_remote_nodes" =>
        IF NetSectionsAllowListed(config)
        THEN res.err = "none" /\ NodesMatch(config, res.val)
        ELSE res.err # "none" /\ res.val = <<>>

\* two Net sections were listed from a document that holds a third section
C4_Witness ==
    /\ res.op = "get_remote_nodes"
    /\ res.err = "none"
    /\ Len(res.val) = 2
    /\ Len(config) > 2

\* the section of d named as r holds r's items, option names compared
\* without regard to letter case
SectionHoldsItems(d, r) ==
    /\ StoreHasSection(d, GetSectionName(r))
    /\ {[k |-> Upper(StoreItems(d, GetSectionName(r))[i].k),
         v |-> StoreItems(d, GetSectionName(r))[i].v] :
           i \in 1..Len(StoreItems(d, GetSectionName(r)))}
       = {[k |-> Upper(ItemsOf(r)[i].k), v |-> ItemsOf(r)[i].v] :
           i \in 1..Len(ItemsOf(r))}

\* C5, as claimed: add_section(R), write in either mode to any file, and a
\* fresh document read from that file holds a section with R's items.
C5_RoundTripAnyFileAnyMode ==
    trail.stage = "reloaded" => SectionHoldsItems(config, rec)

\* C5, amended: that holds when the file is truncated, or appended to
\* while it holds no section of R's name.
C5_RoundTripTruncateOrNoClash ==
    (trail.stage = "reloaded" /\ (trail.mode = "w" \/ ~trail.clash))
        => SectionHoldsItems(config, rec)

\* a record of two items was added, appended to a file that held other
\* sections, and read back
C5_Witness ==
    /\ trail.stage = "reloaded"
    /\ trail.mode = "a"
    /\ ~trail.clash
    /\ Len(ItemsOf(rec)) = 2
    /\ Len(config) > 1

\* C6: after a Set that succeeds, Get with the same name in any letter case
\* returns the value set.
C6_SetThenGetAnyCase ==
    (res.op = "setitem" /\ res.err = "none") =>
        \A c \in Cases : GetItemOf(rec, K(res.key.n, c)) = res.arg

\* a Set with a key in mixed case succeeded on a record with other entries
C6_Witness ==
    /\ res.op = "setitem"
    /\ res.err = "none"
    /\ res.key.c = "M"
    /\ Len(rec.dbase) > 1

\* C7: constructing a record of either variant without data succeeds and
\* gives exactly one entry, TYPE, with the variant's type name.
C7_NoDataConstruction ==
    (res.op \in {"SvxlinkTypeNet", "SvxlinkTypeMulti"} /\ ~res.arg.given) =>
        /\ res.err = "none"
        /\ rec.dbase = <<[k |-> TypeKey,
                          v |-> IF res.op = "SvxlinkTypeNet" THEN "Net"
                                ELSE "Multi"]>>

\* C8: section names are unique in the document, and add_section with a
\* name the document holds fails and leaves the document as it was.
C8_SectionNamesUnique ==
    /\ [](\A i, j \in 1..Len(config) :
             config[i].name = config[j].name => i = j)
    /\ [][(res'.op = "add_section"
           /\ StoreHasSection(config, GetSectionName(rec)))
          => (res'.err # "none" /\ config' = config)]_vars

\* add_section was refused for a record with items the section lacks
C8_Witness ==
    /\ res.op = "add_section"
    /\ res.err = "DuplicateSectionError"
    /\ ~SectionHoldsItems(config, rec)

\* C9: is_online on a record without HOST or without TCP_PORT fails with
\* ValueError before any socket call: none was made and the default
\* timeout is as it was.
C9_IsOnlinePrecondition ==
    [][(/\ res'.op = "is_online"
        /\ ~(HasOptionOf(rec, K("HOST", "U"))
             /\ HasOptionOf(rec, K("TCP_PORT", "U"))))
          => (/\ res'.err = "ValueError"
              /\ res'.net = <<>>
              /\ defaulttimeout' = defaulttimeout)]_vars

\* is_online failed on a record that has HOST and lacks TCP_PORT
C9_Witness ==
    /\ res.op = "is_online"
    /\ res.err = "ValueError"
    /\ HasOptionOf(rec, K("HOST", "U"))
    /\ ~HasOptionOf(rec, K("TCP_PORT", "U"))

\* C10: a Set that succeeds overwrites the value of a key that is there,
\* in place, or appends a key that is not; every other entry keeps its
\* place and value, and items() gives the entries in that order.
C10_SetFrame ==
    [][(res'.op = "setitem" /\ res'.err = "none") =>
          LET k == Upper(res'.key)
              d == rec.dbase
              e == rec'.dbase
          IN  /\ IF \E i \in 1..Len(d) : d[i].k = k
                 THEN /\ Len(e) = Len(d)
                      /\ \A i \in 1..Len(d) :
                            /\ e[i].k = d[i].k
                            /\ e[i].v = IF d[i].k = k THEN res'.arg ELSE d[i].v
                 ELSE /\ Len(e) = Len(d) + 1
                      /\ \A i \in 1..Len(d) : e[i] = d[i]
                      /\ e[Len(e)] = [k |-> k, v |-> res'.arg]
              /\ ItemsOf(rec') = e
              /\ [rec' EXCEPT !.dbase = d] = rec]_vars

\* a Set gave a new value to the first of several entries
C10_Witness ==
    /\ res.op = "setitem"
    /\ res.err = "none"
    /\ Len(rec.dbase) > 2
    /\ rec.dbase[1].k = Upper(res.key)
    /\ rec.dbase[1].v = res.arg
    /\ rec.dbase[1].v = "b"

====
